---- MODULE Spec2Model ----
(***************************************************************************)
(* User management routes (controller/routes/users.py): list_users,        *)
(* list_approvers, create_user, update_user, delete_user over a            *)
(* persistence adapter obtained from get_db().                             *)
(*                                                                         *)
(* The `users` relation is the state.  Every request is one action: the    *)
(* authorization dependency, the capability probing (hasattr), the chosen  *)
(* strategy and the response.  The adapter object returned by get_db() is  *)
(* an input of each request: the set of attributes it exposes and what     *)
(* get_connection() returns.                                               *)
(***************************************************************************)
EXTENDS Integers, Sequences, FiniteSets, TLC

VARIABLES users, nextId, pc, req, resp, tr, deleted

vars == <<users, nextId, pc, req, resp, tr, deleted>>

(***************************************************************************)
(* Bounds and data domains                                                 *)
(***************************************************************************)
\* number of rows the store may ever assign a user_id to
MaxId == 2

\* Python None / SQL NULL
NULL == "None"

\* user_id of a response record before the store assigned one
NoId == 0

Usernames == {"alice", "bob"}
Emails == {"a@x.com", "b@x.com"}
FullNames == {"Al", "Bo"}
Roles == {"user", "approver", "admin"}

\* role resolved from the presented token; "anon" is an absent or
\* unresolvable token
Callers == {"anon", "user", "approver", "admin"}

\* attributes the routes probe on the adapter
Attrs == {"list_users", "list_approvers", "get_user_by_username",
          "create_user", "update_user", "delete_user", "get_connection"}

ConnValues == {NULL, "conn"}

\* an adapter exposing the attributes `as`, whose get_connection() returns c
Adapter(as, c) == [attrs |-> as, conn |-> c]

\* the adapters that differ in the attributes of `relevant`;
\* get_connection() returns something only where the attribute exists
AdaptersOver(relevant) ==
    {Adapter(as, c) :
        as \in SUBSET relevant,
        c \in ConnValues} \ {Adapter(as, "conn") :
                                as \in SUBSET (relevant \ {"get_connection"})}

\* HTTP status codes
OK == 200
Unauthorized == 401
Forbidden == 403
NotFound == 404
Conflict == 409
InternalFailure == 500
Unsupported == 501

(***************************************************************************)
(* Request models                                                          *)
(***************************************************************************)
\* UserCreate with no default for role
UserCreate_no_default(body) ==
    [username  |-> body.username,
     email     |-> body.email,
     full_name |-> body.full_name,
     role      |-> body.role]

\* UserCreate: role defaults to "user" when the body leaves it out
UserCreate(body) ==
    [username  |-> body.username,
     email     |-> body.email,
     full_name |-> body.full_name,
     role      |-> IF body.role = NULL THEN "user" ELSE body.role]

\* the fields of an update body that are not None
Supplied(updates) ==
    {f \in {"email", "full_name", "role"} : updates[f] # NULL}

\* updates.dict() with the None fields kept
exclude_none_kept(updates) ==
    [f \in {"email", "full_name", "role"} |-> updates[f]]

\* updates.dict(exclude_none=True)
exclude_none(updates) == [f \in Supplied(updates) |-> updates[f]]

\* structurally valid create bodies (role may be left out)
CreateBodies ==
    [username : Usernames, email : Emails,
     full_name : FullNames \cup {NULL}, role : Roles \cup {NULL}]

\* structurally valid update bodies (every field optional)
UpdateBodies ==
    [email : Emails \cup {NULL}, full_name : FullNames \cup {NULL},
     role : Roles \cup {NULL}]

(***************************************************************************)
(* The users relation                                                      *)
(***************************************************************************)
Row(id, u, e, f, r) ==
    [user_id |-> id, username |-> u, email |-> e, full_name |-> f, role |-> r]

RowsOf(table, u) == {r \in table : r.username = u}

\* sort rank of a full_name or username: NULL sorts first, then the
\* strings in lexicographic order
Rank(s) ==
    CASE s = NULL    -> 0
      [] s = "Al"    -> 1
      [] s = "Bo"    -> 2
      [] s = "alice" -> 3
      [] s = "bob"   -> 4
      [] OTHER       -> 5

\* ORDER BY full_name, username
NameBefore(a, b) ==
    \/ Rank(a.full_name) < Rank(b.full_name)
    \/ /\ Rank(a.full_name) = Rank(b.full_name)
       /\ Rank(a.username) <= Rank(b.username)

RECURSIVE OrderByName(_)
OrderByName(S) ==
    IF S = {} THEN <<>>
    ELSE LET m == CHOOSE r \in S : \A q \in S : NameBefore(r, q)
         IN  <<m>> \o OrderByName(S \ {m})

\* the store's own row order: by rowid
RECURSIVE OrderById(_)
OrderById(S) ==
    IF S = {} THEN <<>>
    ELSE LET m == CHOOSE r \in S : \A q \in S : r.user_id <= q.user_id
         IN  <<m>> \o OrderById(S \ {m})

(***************************************************************************)
(* What a request did to the adapter: the adapter get_db() gave it, the    *)
(* attributes it probed with hasattr and their answers, the value of the   *)
(* local `conn`, the calls it made, and the store error it met ("none",    *)
(* "fault" for an unexpected error, "integrity" for the UNIQUE constraint  *)
(* on username).                                                           *)
(***************************************************************************)
\* no adapter: get_db() has not been called
NoAdapter == Adapter({}, NULL)

Trace0 ==
    [db |-> NoAdapter, has |-> {}, conn |-> NULL, calls |-> {}, err |-> "none"]

hasattr(db, a) == a \in db.attrs

Probe(t, db, a) == [t EXCEPT !.has = @ \cup {<<a, hasattr(db, a)>>}]

Call(t, c) == [t EXCEPT !.calls = @ \cup {c}]

Raised(t, e) == [t EXCEPT !.err = e]

\* db = get_db()
get_db(t, db) == [Call(t, "get_db") EXCEPT !.db = db]

\* get_connection taken as usable whenever the attribute exists
get_connection_unchecked(t, db) ==
    LET t1 == Probe(t, db, "get_connection")
    IN  IF hasattr(db, "get_connection")
        THEN [Call(t1, "get_connection") EXCEPT !.conn = "conn"]
        ELSE t1

\* conn = db.get_connection() if hasattr(db, 'get_connection') else None
get_connection(t, db) ==
    LET t1 == Probe(t, db, "get_connection")
    IN  IF hasattr(db, "get_connection")
        THEN [Call(t1, "get_connection") EXCEPT !.conn = db.conn]
        ELSE t1

(***************************************************************************)
(* Authorization dependencies (controller.deps)                            *)
(***************************************************************************)
verify_token(caller) == caller # "anon"

require_admin(caller) == caller = "admin"

(***************************************************************************)
(* The raw statements the routes execute on a connection                   *)
(***************************************************************************)
\* the SELECT without its ORDER BY: rows come back in rowid order
select_approvers_unordered(table) ==
    OrderById({r \in table : r.role \in {"approver", "admin"}})

\* SELECT ... FROM users WHERE role IN ('approver', 'admin')
\* ORDER BY full_name, username
select_approvers(table) ==
    OrderByName({r \in table : r.role \in {"approver", "admin"}})

\* username is UNIQUE in the users relation
violates_unique(table, u) == RowsOf(table, u) # {}

\* INSERT INTO users (username, email, full_name, role) VALUES (?, ?, ?, ?)
\* the store assigns the row the user_id `id`
insert_user(table, id, user) ==
    table \cup {Row(id, user.username, user.email, user.full_name, user.role)}

\* the update done as a replacement of the row: the store gives the new
\* row a fresh user_id
update_users_replacing(table, u, fields, values) ==
    {IF r.username = u
     THEN [f \in DOMAIN r |-> IF f \in fields THEN values[f]
                              ELSE IF f = "user_id" THEN r.user_id + 1
                              ELSE r[f]]
     ELSE r : r \in table}

\* UPDATE users SET <fields> WHERE username = ?, each field of `fields`
\* taking its value from `values`
update_users(table, u, fields, values) ==
    {IF r.username = u
     THEN [f \in DOMAIN r |-> IF f \in fields THEN values[f] ELSE r[f]]
     ELSE r : r \in table}

\* DELETE FROM users WHERE username = ?
delete_from_users(table, u) == table \ RowsOf(table, u)

\* cursor.rowcount of an UPDATE or DELETE with WHERE username = ?
rowcount(table, u) == Cardinality(RowsOf(table, u))

(***************************************************************************)
(* The adapter's dedicated operations (controller.db.db)                   *)
(***************************************************************************)
db_list_users(table, role) ==
    OrderById({r \in table : role = NULL \/ r.role = role})

db_list_approvers(table) ==
    OrderById({r \in table : r.role \in {"approver", "admin"}})

\* the row, or nothing
db_get_user_by_username(table, u) == RowsOf(table, u)

\* create_user stores the row under the user_id `id` and returns it
db_create_user(table, id, user) ==
    table \cup {Row(id, user.username, user.email, user.full_name, user.role)}

\* what create_user returns: the stored row, user_id included
db_created_user(id, user) ==
    Row(id, user.username, user.email, user.full_name, user.role)

\* update_user applies the fields of the dict it is given to the row of u
db_update_user(table, u, fields) ==
    update_users(table, u, DOMAIN fields, fields)

\* what update_user returns: the merged row, or nothing when no row matches
db_updated_user(table, u, fields) == RowsOf(db_update_user(table, u, fields), u)

\* delete_user removes the row of u if there is one
db_delete_user(table, u) == table \ RowsOf(table, u)

(***************************************************************************)
(* Responses                                                               *)
(***************************************************************************)
\* what a request leaves behind: the response and the store after it
Reply(status, items, user, table, t) ==
    [status |-> status, items |-> items, count |-> Len(items), user |-> user,
     users |-> table, tr |-> t]

\* cursor.lastrowid: the user_id the store assigns to the next inserted row
lastrowid == nextId

\* raise HTTPException(status_code=status): nothing is written
HTTPException(status, t) == Reply(status, <<>>, {}, users, t)

\* the dependency rejects the request before the route body runs
Denied(caller) ==
    HTTPException(IF caller = "anon" THEN Unauthorized ELSE Forbidden, Trace0)

\* except Exception: raise HTTPException(status_code=500)
Error500(t, e) == HTTPException(InternalFailure, Raised(t, e))

(***************************************************************************)
(* Routes.  Each operator is one request handled from the dependency to    *)
(* the response, on the store `users`; `fault` is where the     *)
(* store raises an unexpected error during the request, if anywhere.       *)
(***************************************************************************)
\* a read with no strategy left fails like a write does
empty_result_unsupported(t) == HTTPException(Unsupported, t)

\* users = [] / approvers = []: a read with no strategy left answers with
\* an empty collection
empty_result(t) == Reply(OK, <<>>, {}, users, t)

\* list_users behind require_admin instead of verify_token
list_users_admin_only(db, caller, role, fault) ==
    LET t0 == get_db(Trace0, db)
        t1 == Probe(t0, db, "list_users")
        t2 == Call(t1, "list_users")
    IN  IF ~require_admin(caller) THEN Denied(caller)
        ELSE IF hasattr(db, "list_users")
        THEN IF fault = "op" THEN Error500(t2, "fault")
             ELSE Reply(OK, db_list_users(users, role), {}, users, t2)
        ELSE Reply(OK, <<>>, {}, users, t1)

\* GET /users
list_users(db, caller, role, fault) ==
    LET t0 == get_db(Trace0, db)
        t1 == Probe(t0, db, "list_users")
        t2 == Call(t1, "list_users")
    IN  IF ~verify_token(caller) THEN Denied(caller)
        ELSE IF hasattr(db, "list_users")
        THEN IF fault = "op" THEN Error500(t2, "fault")
             ELSE Reply(OK, db_list_users(users, role), {}, users, t2)
        ELSE empty_result(t1)

\* [u for u in all_users if u.get('role') in ('approver', 'admin')]
filter_approvers(all_users) ==
    SelectSeq(all_users, LAMBDA u : u.role \in {"approver", "admin"})

\* list_approvers taking the raw connection before it looks at the
\* dedicated operations
list_approvers_conn_first(db, caller, fault) ==
    LET t0 == get_db(Trace0, db)
        t1 == get_connection(t0, db)
        t2 == Probe(t1, db, "list_approvers")
        t3 == Probe(t2, db, "list_users")
    IN  IF ~verify_token(caller) THEN Denied(caller)
        ELSE IF fault = "op" THEN Error500(t2, "fault")
        ELSE IF hasattr(db, "list_approvers")
        THEN Reply(OK, db_list_approvers(users), {}, users,
                   Call(t2, "list_approvers"))
        ELSE IF hasattr(db, "list_users")
        THEN Reply(OK, filter_approvers(db_list_users(users, NULL)), {},
                   users, Call(t3, "list_users"))
        ELSE IF t1.conn # NULL
        THEN Reply(OK, select_approvers(users), {}, users,
                   Call(t3, "execute"))
        ELSE Reply(OK, <<>>, {}, users, t3)

\* GET /users/approvers
list_approvers(db, caller, fault) ==
    LET t0 == get_db(Trace0, db)
        t1 == Probe(t0, db, "list_approvers")
        t2 == Probe(t1, db, "list_users")
        t3 == get_connection(t2, db)
        t4 == Call(t3, "execute")
    IN  IF ~verify_token(caller) THEN Denied(caller)
        ELSE IF hasattr(db, "list_approvers")
        THEN IF fault = "op" THEN Error500(Call(t1, "list_approvers"), "fault")
             ELSE Reply(OK, db_list_approvers(users), {}, users,
                        Call(t1, "list_approvers"))
        ELSE IF hasattr(db, "list_users")
        THEN IF fault = "op" THEN Error500(Call(t2, "list_users"), "fault")
             ELSE Reply(OK, filter_approvers(db_list_users(users, NULL)), {},
                        users, Call(t2, "list_users"))
        ELSE IF t3.conn # NULL
        THEN IF fault = "op"
             \* except Exception as sql_err: logged, approvers stays []
             THEN Reply(OK, <<>>, {}, users, Raised(t4, "fault"))
             ELSE Reply(OK, select_approvers(users), {}, users, t4)
        ELSE empty_result(t3)

\* existing = db.get_user_by_username(user.username) found the user
create_exists(db, user) ==
    /\ hasattr(db, "get_user_by_username")
    /\ db_get_user_by_username(users, user.username) # {}

\* the write of create_user, after the lookup left the trace t: through
\* db.create_user, or the raw INSERT, or neither
create_write(db, user, t, fault) ==
    LET t3 == Probe(t, db, "create_user")
        t4 == Call(t3, "create_user")
        t5 == get_connection(t3, db)
        t6 == Call(t5, "execute")
        t7 == Call(t6, "commit")
        \* the dict the raw path builds around cursor.lastrowid
        new_user == Row(lastrowid, user.username, user.email, user.full_name,
                        user.role)
    IN  IF hasattr(db, "create_user")
        THEN IF fault = "op" THEN Error500(t4, "fault")
             ELSE IF violates_unique(users, user.username)
             THEN Error500(t4, "integrity")
             ELSE Reply(OK, <<>>, {db_created_user(lastrowid, user)},
                        db_create_user(users, lastrowid, user), t4)
        ELSE IF t5.conn # NULL
        THEN IF fault = "op" THEN Error500(t6, "fault")
             ELSE IF violates_unique(users, user.username)
             THEN Error500(t6, "integrity")
             ELSE Reply(OK, <<>>, {new_user},
                        insert_user(users, lastrowid, user), t7)
        ELSE HTTPException(Unsupported, t5)

\* POST /users
create_user(db, caller, body, fault) ==
    LET user == UserCreate(body)
        t0 == get_db(Trace0, db)
        t1 == Probe(t0, db, "get_user_by_username")
        t2 == IF hasattr(db, "get_user_by_username")
              THEN Call(t1, "get_user_by_username") ELSE t1
    IN  IF ~require_admin(caller) THEN Denied(caller)
        ELSE IF hasattr(db, "get_user_by_username") /\ fault = "lookup"
        THEN Error500(t2, "fault")
        ELSE IF create_exists(db, user)
        THEN HTTPException(Conflict, t2)
        ELSE create_write(db, user, t2, fault)

\* the raw UPDATE setting every column, supplied or not
update_fields_all(updates) == {"email", "full_name", "role"}

\* update_fields / params of the raw UPDATE: the fields that are not None
update_fields(updates) ==
    {f \in {"email", "full_name", "role"} : updates[f] # NULL}

\* {"username": username, **updates.dict(exclude_none=True)}
updated_dict(username, updates) ==
    [k \in {"username"} \cup Supplied(updates) |->
        IF k = "username" THEN username ELSE updates[k]]

\* PUT /users/{username}
update_user(db, caller, username, updates, fault) ==
    LET t0 == get_db(Trace0, db)
        t1 == Probe(t0, db, "update_user")
        t2 == Call(t1, "update_user")
        t3 == get_connection(t1, db)
        t4 == Call(t3, "execute")
        t5 == Call(t4, "commit")
        fields == update_fields(updates)
    IN  IF ~require_admin(caller) THEN Denied(caller)
        ELSE IF hasattr(db, "update_user")
        THEN IF fault = "op" THEN Error500(t2, "fault")
             ELSE Reply(OK, <<>>,
                        db_updated_user(users, username, exclude_none(updates)),
                        db_update_user(users, username, exclude_none(updates)),
                        t2)
        ELSE IF t3.conn # NULL
        THEN IF fields = {}
             THEN Reply(OK, <<>>, {updated_dict(username, updates)}, users,
                        t3)
             ELSE IF fault = "op" THEN Error500(t4, "fault")
             ELSE IF rowcount(users, username) = 0
             THEN HTTPException(NotFound, t5)
             ELSE Reply(OK, <<>>, {updated_dict(username, updates)},
                        update_users(users, username, fields, updates), t5)
        ELSE HTTPException(Unsupported, t3)

\* delete_user with the admin check made in the route body, after the
\* adapter has been fetched and probed
delete_user_checks_late(db, caller, username, fault) ==
    LET t0 == get_db(Trace0, db)
        t1 == Probe(t0, db, "delete_user")
    IN  IF ~require_admin(caller)
        THEN HTTPException(Forbidden, t1)
        ELSE IF (hasattr(db, "delete_user") \/ db.conn # NULL) /\ fault = "none"
        THEN Reply(OK, <<>>, {}, delete_from_users(users, username), t1)
        ELSE HTTPException(Unsupported, t1)

\* DELETE /users/{username}
delete_user(db, caller, username, fault) ==
    LET t0 == get_db(Trace0, db)
        t1 == Probe(t0, db, "delete_user")
        t2 == Call(t1, "delete_user")
        t3 == get_connection(t1, db)
        t4 == Call(t3, "execute")
        t5 == Call(t4, "commit")
    IN  IF ~require_admin(caller) THEN Denied(caller)
        ELSE IF hasattr(db, "delete_user")
        THEN IF fault = "op" THEN Error500(t2, "fault")
             ELSE Reply(OK, <<>>, {}, db_delete_user(users, username), t2)
        ELSE IF t3.conn # NULL
        THEN IF fault = "op" THEN Error500(t4, "fault")
             ELSE IF rowcount(users, username) = 0
             THEN HTTPException(NotFound, t5)
             ELSE Reply(OK, <<>>, {}, delete_from_users(users, username),
                        t5)
        ELSE HTTPException(Unsupported, t3)

(***************************************************************************)
(* The state machine: a request arrives, the route serves it, the          *)
(* response is delivered.  Requests are served one at a time.              *)
(***************************************************************************)
Request(op, caller, username, body) ==
    [op |-> op, caller |-> caller, username |-> username,
     email |-> body.email, full_name |-> body.full_name, role |-> body.role]

NoBody == [email |-> NULL, full_name |-> NULL, role |-> NULL]

NoRequest == Request("none", "anon", NULL, NoBody)

NoResponse == [status |-> 0, items |-> <<>>, count |-> 0, user |-> {}]

BodyOf(r) == [email |-> r.email, full_name |-> r.full_name, role |-> r.role]

\* where the store may raise during a request served by db: at the lookup
\* of the username (create only), at the operation itself, or nowhere
Faults(db, lookup, dedicated) ==
    {"none"}
    \cup (IF lookup \in db.attrs THEN {"lookup"} ELSE {})
    \cup (IF dedicated \cap db.attrs # {} \/ db.conn # NULL
          THEN {"op"} ELSE {})

\* the process starts on a users relation that is empty or already holds
\* an administrator
SeedUser == Row(1, "alice", "a@x.com", NULL, "admin")

Init ==
    /\ users \in {{}, {SeedUser}}
    /\ nextId = Cardinality(users) + 1
    /\ pc = "idle"
    /\ req = NoRequest
    /\ resp = NoResponse
    /\ tr = Trace0
    /\ deleted = {}

\* a request arrives.  The body is validated and bound only once the
\* dependency has admitted the caller.
Arrive ==
    /\ pc = "idle"
    /\ pc' = "pending"
    /\ UNCHANGED <<users, nextId, resp, tr, deleted>>
    /\ \/ \E caller \in Callers, role \in Roles \cup {NULL} :
            req' = Request("list", caller, NULL, [NoBody EXCEPT !.role = role])
       \/ \E caller \in Callers :
            req' = Request("approvers", caller, NULL, NoBody)
       \/ /\ nextId <= MaxId
          /\ \/ \E caller \in Callers \ {"admin"} :
                  req' = Request("create", caller, NULL, NoBody)
             \/ \E body \in CreateBodies :
                  req' = Request("create", "admin", body.username, body)
       \/ \E caller \in Callers \ {"admin"}, username \in Usernames :
            req' = Request("update", caller, username, NoBody)
       \/ \E username \in Usernames, updates \in UpdateBodies :
            req' = Request("update", "admin", username, updates)
       \/ \E caller \in Callers, username \in Usernames :
            req' = Request("delete", caller, username, NoBody)

\* history: the usernames whose record a successful delete request removed
\* and that no create has stored again since
Deleted(out) ==
    IF /\ req.op = "delete" /\ out.status = OK
       /\ RowsOf(users, req.username) # {}
       /\ RowsOf(out.users, req.username) = {}
    THEN deleted \cup {req.username}
    ELSE IF req.op = "create" /\ out.users # users
    THEN deleted \ {req.username}
    ELSE deleted

\* the route handled the pending request with outcome out
Handle(out) ==
    /\ pc' = "done"
    /\ resp' = [status |-> out.status, items |-> out.items,
                count |-> out.count, user |-> out.user]
    /\ tr' = out.tr
    /\ users' = out.users
    /\ nextId' = IF out.users # users /\ req.op = "create"
                 THEN nextId + 1 ELSE nextId
    /\ deleted' = Deleted(out)
    /\ UNCHANGED req

ListUsers ==
    /\ pc = "pending" /\ req.op = "list"
    /\ \E db \in AdaptersOver({"list_users", "get_connection"}) :
         \E fault \in Faults(db, "-", {"list_users"}) :
           Handle(list_users(db, req.caller, req.role, fault))

ListApprovers ==
    /\ pc = "pending" /\ req.op = "approvers"
    /\ \E db \in AdaptersOver({"list_approvers", "list_users",
                               "get_connection"}) :
         \E fault \in Faults(db, "-", {"list_approvers", "list_users"}) :
           Handle(list_approvers(db, req.caller, fault))

CreateUser ==
    /\ pc = "pending" /\ req.op = "create"
    /\ \E db \in AdaptersOver({"get_user_by_username", "create_user",
                               "get_connection"}) :
         \E fault \in Faults(db, "get_user_by_username", {"create_user"}) :
           Handle(create_user(db, req.caller,
                              [username |-> req.username] @@ BodyOf(req),
                              fault))

UpdateUser ==
    /\ pc = "pending" /\ req.op = "update"
    /\ \E db \in AdaptersOver({"update_user", "get_connection"}) :
         \E fault \in Faults(db, "-", {"update_user"}) :
           Handle(update_user(db, req.caller, req.username, BodyOf(req),
                              fault))

DeleteUser ==
    /\ pc = "pending" /\ req.op = "delete"
    /\ \E db \in AdaptersOver({"delete_user", "get_connection"}) :
         \E fault \in Faults(db, "-", {"delete_user"}) :
           Handle(delete_user(db, req.caller, req.username, fault))

\* the response is delivered and the request is over
Respond ==
    /\ pc = "done"
    /\ pc' = "idle"
    /\ req' = NoRequest
    /\ resp' = NoResponse
    /\ tr' = Trace0
    /\ UNCHANGED <<users, nextId, deleted>>

Next ==
    \/ Arrive
    \/ ListUsers
    \/ ListApprovers
    \/ CreateUser
    \/ UpdateUser
    \/ DeleteUser
    \/ Respond

Spec == Init /\ [][Next]_vars

(***************************************************************************)
(* Two create requests served concurrently.  The lookup of the username    *)
(* and the write are two steps of a request, and the steps of the two      *)
(* requests interleave in any order on the one store.  Here pc, req, resp  *)
(* and tr hold one value per request.                                      *)
(***************************************************************************)
Procs == {1, 2}

\* both requests come from an admin, carry validated bodies with the same
\* username, not stored yet, and are served by the same adapter
RaceInit ==
    /\ users \in {{}, {SeedUser}}
    /\ nextId = Cardinality(users) + 1
    /\ deleted = {}
    /\ pc = [p \in Procs |-> "lookup"]
    /\ resp = [p \in Procs |-> NoResponse]
    /\ \E u \in Usernames, b1, b2 \in CreateBodies :
         /\ RowsOf(users, u) = {}
         /\ b1.username = u /\ b2.username = u
         /\ req = <<Request("create", "admin", u, b1),
                    Request("create", "admin", u, b2)>>
    /\ \E db \in AdaptersOver({"get_user_by_username", "create_user",
                                "get_connection"}) :
         tr = [p \in Procs |-> get_db(Trace0, db)]

\* the user request p carries
UserOf(p) == UserCreate([username |-> req[p].username] @@ BodyOf(req[p]))

\* request p has its response
Finish(p, out) ==
    /\ pc' = [pc EXCEPT ![p] = "done"]
    /\ resp' = [resp EXCEPT ![p] = [status |-> out.status,
                                    items |-> out.items,
                                    count |-> out.count,
                                    user |-> out.user]]
    /\ tr' = [tr EXCEPT ![p] = out.tr]
    /\ users' = out.users
    /\ nextId' = IF out.users # users THEN nextId + 1 ELSE nextId
    /\ UNCHANGED <<req, deleted>>

\* request p looks the username up, where the adapter can: Conflict if it
\* is stored, otherwise on to the write
Lookup(p) ==
    /\ pc[p] = "lookup"
    /\ LET db == tr[p].db
           t1 == Probe(tr[p], db, "get_user_by_username")
           t2 == IF hasattr(db, "get_user_by_username")
                 THEN Call(t1, "get_user_by_username") ELSE t1
       IN  IF create_exists(db, UserOf(p))
           THEN Finish(p, HTTPException(Conflict, t2))
           ELSE /\ pc' = [pc EXCEPT ![p] = "write"]
                /\ tr' = [tr EXCEPT ![p] = t2]
                /\ UNCHANGED <<users, nextId, req, resp, deleted>>

\* request p writes the user
Write(p) ==
    /\ pc[p] = "write"
    /\ Finish(p, create_write(tr[p].db, UserOf(p), tr[p], "none"))

RaceNext == \E p \in Procs : Lookup(p) \/ Write(p)

RaceSpec == RaceInit /\ [][RaceNext]_vars

(***************************************************************************)
(* Vocabulary of the properties                                            *)
(***************************************************************************)
\* this step is a route serving the pending request `op`
Serves(op) == pc = "pending" /\ pc' = "done" /\ req.op = op

\* the request `op` has been served and its response not yet delivered
Served(op) == pc = "done" /\ req.op = op

Mutating == {"create", "update", "delete"}

\* the store raised no unexpected error while the request was served
NoFault(t) == t.err # "fault"

\* the adapter offers a strategy for the mutation: the dedicated operation
\* or a usable raw connection
CanMutate(db, dedicated) == dedicated \in db.attrs \/ db.conn # NULL

Approvers(table) == {r \in table : r.role \in {"approver", "admin"}}

\* the elements of a sequence
Range(s) == {s[i] : i \in 1..Len(s)}

(***************************************************************************)
(* C1  A create request whose username is already stored fails with        *)
(* Conflict (409) and leaves the stored records unchanged, whether or not  *)
(* the adapter exposes get_user_by_username and whether it creates through *)
(* create_user or through the raw INSERT.                                  *)
(***************************************************************************)
C1_DuplicateCreateIsConflict ==
    [][(/\ Serves("create") /\ req.caller = "admin"
        /\ RowsOf(users, req.username) # {}
        /\ CanMutate(tr'.db, "create_user")
        /\ NoFault(tr'))
       => (resp'.status = Conflict /\ users' = users)]_vars

(***************************************************************************)
(* C2  On every deletion strategy, the first delete of a stored username   *)
(* succeeds and removes the record, and a second delete of the same        *)
(* username with no create in between fails with NotFound (404).           *)
(***************************************************************************)
C2_SecondDeleteIsNotFound ==
    [][(/\ Serves("delete") /\ req.caller = "admin"
        /\ CanMutate(tr'.db, "delete_user")
        /\ NoFault(tr'))
       => /\ RowsOf(users, req.username) # {}
             => (resp'.status = OK /\ RowsOf(users', req.username) = {})
          /\ req.username \in deleted => resp'.status = NotFound]_vars

(***************************************************************************)
(* C3  A create, update or delete request from a caller who is not admin   *)
(* (or has no resolvable token) is rejected with a permission error and    *)
(* touches the store in no way: no get_db, no capability probe, no         *)
(* connection, no read, no write.                                          *)
(***************************************************************************)
C3_NonAdminNeverReachesStore ==
    [][(/\ \E op \in Mutating : Serves(op)
        /\ req.caller # "admin")
       => /\ resp'.status \in {Unauthorized, Forbidden}
          /\ tr' = Trace0
          /\ users' = users]_vars

C3_Witness ==
    /\ \E op \in Mutating : Served(op)
    /\ req.caller = "user"
    /\ resp.status = Forbidden
    /\ users # {}

(***************************************************************************)
(* C4  Whenever list-approvers is served by one of the three strategies,   *)
(* it returns exactly the stored users whose role is approver or admin,    *)
(* the same set on the dedicated, the list-and-filter and the raw path.    *)
(***************************************************************************)
C4_ApproversExactOnEveryPath ==
    (/\ Served("approvers") /\ verify_token(req.caller)
     /\ resp.status = OK
     /\ \/ tr.db.attrs \cap {"list_approvers", "list_users"} # {}
        \/ tr.db.conn # NULL)
    => /\ Range(resp.items) = Approvers(users)
       /\ resp.count = Cardinality(Approvers(users))

(***************************************************************************)
(* C5  A successful update of a stored user sets exactly the supplied      *)
(* fields among email, full_name and role; every other field of the        *)
(* record, and every other record, keeps its value.                        *)
(***************************************************************************)
Merged(r, q) ==
    [r EXCEPT !.email     = IF q.email # NULL THEN q.email ELSE @,
              !.full_name = IF q.full_name # NULL THEN q.full_name ELSE @,
              !.role      = IF q.role # NULL THEN q.role ELSE @]

C5_UpdateChangesOnlySupplied ==
    [][(/\ Serves("update") /\ req.caller = "admin"
        /\ resp'.status = OK
        /\ RowsOf(users, req.username) # {})
       => users' = {IF r.username = req.username THEN Merged(r, req) ELSE r :
                       r \in users}]_vars

\* an update supplying only email went through the raw UPDATE and the
\* record still has its full_name and role; another record is stored too
C5_Witness ==
    /\ Served("update") /\ resp.status = OK
    /\ req.email # NULL /\ req.full_name = NULL /\ req.role = NULL
    /\ "update_user" \notin tr.db.attrs
    /\ "execute" \in tr.calls
    /\ Cardinality(users) = 2
    /\ \E r \in users :
         /\ r.username = req.username /\ r.email = req.email
         /\ r.full_name # NULL /\ r.role = "approver"

(***************************************************************************)
(* C6  An admin update of a username with no stored record fails with      *)
(* NotFound (404) and leaves the store unchanged, on the dedicated and on  *)
(* the raw strategy and for every set of supplied fields, the empty set    *)
(* included.                                                               *)
(***************************************************************************)
C6_UpdateMissingIsNotFound ==
    [][(/\ Serves("update") /\ req.caller = "admin"
        /\ RowsOf(users, req.username) = {}
        /\ CanMutate(tr'.db, "update_user")
        /\ NoFault(tr'))
       => (resp'.status = NotFound /\ users' = users)]_vars

(***************************************************************************)
(* C7  A create, update or delete on an adapter that exposes neither the   *)
(* dedicated operation nor a usable raw connection fails with Unsupported  *)
(* (501), never with NotFound, Conflict or success, and the store is       *)
(* unchanged.                                                              *)
(***************************************************************************)
Dedicated(op) ==
    CASE op = "create" -> "create_user"
      [] op = "update" -> "update_user"
      [] op = "delete" -> "delete_user"

\* the pending mutation is served for an admin by an adapter with no
\* strategy for it
ServesWithoutStrategy ==
    /\ \E op \in Mutating : Serves(op) /\ ~CanMutate(tr'.db, Dedicated(op))
    /\ req.caller = "admin"

C7_NoStrategyIsUnsupported ==
    [][(ServesWithoutStrategy /\ NoFault(tr'))
       => (resp'.status = Unsupported /\ users' = users)]_vars

\* C7 as amended: Unsupported, except that a create on an adapter exposing
\* get_user_by_username looks the username up first and fails with Conflict
\* when it is stored, or with InternalFailure when the lookup raises; never
\* NotFound or success, and the store is unchanged in every case.
C7_NoStrategyIsUnsupportedAfterLookup ==
    [][ServesWithoutStrategy
       => /\ users' = users
          /\ resp'.status =
               IF req.op = "create" /\ "get_user_by_username" \in tr'.db.attrs
               THEN IF tr'.err = "fault" THEN InternalFailure
                    ELSE IF RowsOf(users, req.username) # {} THEN Conflict
                    ELSE Unsupported
               ELSE Unsupported]_vars

\* an update was refused with 501 by an adapter whose get_connection()
\* returns None, with the record stored
C7_Witness ==
    /\ Served("update") /\ req.caller = "admin"
    /\ tr.db = Adapter({"get_connection"}, NULL)
    /\ resp.status = Unsupported
    /\ RowsOf(users, req.username) # {}

(***************************************************************************)
(* C8  A list or list-approvers request on an adapter exposing none of     *)
(* the strategies succeeds with an empty collection and count 0.           *)
(***************************************************************************)
C8_ReadsDegradeToEmpty ==
    (/\ Served("list") \/ Served("approvers")
     /\ verify_token(req.caller)
     /\ tr.db.attrs \cap {"list_approvers", "list_users"} = {}
     /\ tr.db.conn = NULL)
    => (resp.status = OK /\ resp.items = <<>> /\ resp.count = 0)

\* list-approvers answered an adapter with no strategy while approvers are
\* stored
C8_Witness ==
    /\ Served("approvers") /\ req.caller = "user"
    /\ tr.db = Adapter({}, NULL)
    /\ "get_db" \in tr.calls
    /\ Approvers(users) # {}
    /\ resp.status = OK /\ resp.count = 0

(***************************************************************************)
(* C9  The list operation returns the stored users (all, or those with     *)
(* the role asked for) whichever capability the adapter offers: an adapter *)
(* exposing only the raw connection answers like one exposing list_users.  *)
(***************************************************************************)
C9_ListSameOnEveryCapability ==
    (/\ Served("list") /\ verify_token(req.caller)
     /\ resp.status = OK
     /\ "list_users" \in tr.db.attrs \/ tr.db.conn # NULL)
    => Range(resp.items) =
         {r \in users : req.role = NULL \/ r.role = req.role}

(***************************************************************************)
(* C10  After a successful create the store holds one record for the       *)
(* username, with the supplied email and full_name and the supplied role   *)
(* or `user` when none was supplied, and the response's user carries the   *)
(* user_id the store assigned, which is not null; on the dedicated and on  *)
(* the raw INSERT path.                                                    *)
(***************************************************************************)
C10_CreateStoresSupplied ==
    (Served("create") /\ resp.status = OK)
    => \E r \in users :
         /\ RowsOf(users, req.username) = {r}
         /\ r.email = req.email
         /\ r.full_name = req.full_name
         /\ r.role = IF req.role = NULL THEN "user" ELSE req.role
         /\ r.user_id # NoId
         /\ resp.user # {}
         /\ \A x \in resp.user : x.user_id = r.user_id

\* a create that left out the role went through the raw INSERT as the
\* second record of the store
C10_Witness ==
    /\ Served("create") /\ resp.status = OK
    /\ req.role = NULL /\ req.full_name # NULL
    /\ "create_user" \notin tr.db.attrs
    /\ "commit" \in tr.calls
    /\ Cardinality(users) = 2

(***************************************************************************)
(* C11  Every request that acquired a store connection (the raw fallback   *)
(* of list-approvers, create, update, delete) has released it by the time  *)
(* its response is returned, on success, NotFound and store error alike.   *)
(***************************************************************************)
\* the request obtained a connection from get_connection() and has not
\* closed it
Held(t) == t.conn # NULL /\ "close" \notin t.calls

C11_ConnectionReleased ==
    (pc = "done" /\ "get_connection" \in tr.calls) => ~Held(tr)

(***************************************************************************)
(* C12  In every operation and on every strategy path, an unexpected error *)
(* raised by the store reaches the caller as InternalFailure (500), and a  *)
(* Conflict, NotFound or Unsupported raised inside the operation reaches   *)
(* the caller with its own kind.                                           *)
(***************************************************************************)
\* the kind the route raises for the pending request from what it finds,
\* 0 if none: Conflict when the lookup finds the username, NotFound when
\* the raw UPDATE or DELETE matched no row, Unsupported with no strategy
RaisedKind ==
    CASE /\ req.op = "create" /\ "get_user_by_username" \in tr'.calls
         /\ RowsOf(users, req.username) # {}
           -> Conflict
      [] /\ req.op \in {"update", "delete"} /\ "commit" \in tr'.calls
         /\ RowsOf(users, req.username) = {}
           -> NotFound
      [] req.op \in Mutating /\ ~CanMutate(tr'.db, Dedicated(req.op))
           -> Unsupported
      [] OTHER -> 0

C12_StoreErrorIsInternalFailure ==
    [][(pc = "pending" /\ pc' = "done" /\ "get_db" \in tr'.calls)
       => /\ tr'.err # "none" => resp'.status = InternalFailure
          /\ (tr'.err = "none" /\ RaisedKind # 0)
             => resp'.status = RaisedKind]_vars

(***************************************************************************)
(* C13  When list-approvers is served by the raw query, the returned       *)
(* sequence is sorted by full_name ascending (records without a full_name  *)
(* first, as the store orders NULL) and, among equal full_name values, by  *)
(* username ascending.                                                     *)
(***************************************************************************)
C13_RawApproversSorted ==
    (Served("approvers") /\ resp.status = OK /\ "execute" \in tr.calls)
    => \A i, j \in 1..Len(resp.items) :
         i < j
         => \/ Rank(resp.items[i].full_name) < Rank(resp.items[j].full_name)
            \/ /\ resp.items[i].full_name = resp.items[j].full_name
               /\ Rank(resp.items[i].username) < Rank(resp.items[j].username)

\* the raw query returned two approvers with the same full_name, the one
\* stored last first
C13_Witness ==
    /\ Served("approvers") /\ resp.status = OK /\ "execute" \in tr.calls
    /\ Len(resp.items) = 2
    /\ resp.items[1].full_name = resp.items[2].full_name
    /\ resp.items[1].user_id > resp.items[2].user_id

(***************************************************************************)
(* C14  A list or list-approvers request is never rejected because of the  *)
(* caller's role: with a resolved identity (user, approver or admin) the   *)
(* route body runs against the adapter; with an absent or unresolvable     *)
(* token the request is rejected before any store access.                  *)
(***************************************************************************)
C14_ReadsNeedOnlyIdentity ==
    [][(Serves("list") \/ Serves("approvers"))
       => IF req.caller = "anon"
          THEN resp'.status = Unauthorized /\ tr' = Trace0
          ELSE /\ resp'.status \notin {Unauthorized, Forbidden}
               /\ "get_db" \in tr'.calls]_vars

\* a caller with role user listed two stored users
C14_Witness ==
    /\ Served("list") /\ req.caller = "user" /\ req.role = NULL
    /\ resp.status = OK /\ resp.count = 2

(***************************************************************************)
(* C15  In every reachable state the role of every stored user record is   *)
(* one of user, approver, admin, after any sequence of create and update   *)
(* requests with validated bodies.                                         *)
(***************************************************************************)
C15_StoredRoleIsEnumerated == \A r \in users : r.role \in Roles

\* the dedicated update_user was given only an email and the record, created
\* without a role, is stored next to another one
C15_Witness ==
    /\ Served("update") /\ resp.status = OK
    /\ "update_user" \in tr.calls
    /\ req.role = NULL /\ req.email # NULL
    /\ Cardinality(users) = 2
    /\ \E r \in users :
         r.username = req.username /\ r.email = req.email /\ r.role = "user"

(***************************************************************************)
(* C16  The strategy of each operation is chosen in the order dedicated    *)
(* operation, list-and-filter, raw query, from the attributes the adapter  *)
(* exposes: the only strategy primitive a request calls is the first one   *)
(* exposed in that order, so no lower-priority primitive is called when a  *)
(* higher one is exposed, and probing an attribute calls nothing.          *)
(***************************************************************************)
\* the strategy primitives of an operation, highest priority first
Strategies(op) ==
    CASE op = "list"      -> <<"list_users">>
      [] op = "approvers" -> <<"list_approvers", "list_users",
                               "get_connection">>
      [] op = "create"    -> <<"create_user", "get_connection">>
      [] op = "update"    -> <<"update_user", "get_connection">>
      [] op = "delete"    -> <<"delete_user", "get_connection">>

\* the first primitive of `seq` the adapter exposes, if any
Chosen(seq, attrs) ==
    LET exposed == {i \in 1..Len(seq) : seq[i] \in attrs}
    IN  IF exposed = {} THEN {}
        ELSE {seq[CHOOSE i \in exposed : \A k \in exposed : i <= k]}

\* the create ended at the lookup of the username, before any strategy
EndedAtLookup ==
    /\ req.op = "create"
    /\ "get_user_by_username" \in tr.calls
    /\ resp.status \in {Conflict, InternalFailure}
    /\ <<"create_user", TRUE>> \notin tr.has
    /\ <<"create_user", FALSE>> \notin tr.has

C16_StrategyByFixedOrder ==
    (pc = "done" /\ "get_db" \in tr.calls)
    => tr.calls \cap Range(Strategies(req.op)) =
         IF EndedAtLookup THEN {}
         ELSE Chosen(Strategies(req.op), tr.db.attrs)

\* list-approvers on an adapter exposing all three strategies called the
\* dedicated operation only
C16_Witness ==
    /\ Served("approvers") /\ resp.status = OK
    /\ tr.db = Adapter({"list_approvers", "list_users", "get_connection"},
                       "conn")
    /\ tr.calls = {"get_db", "list_approvers"}
    /\ Approvers(users) # {}

(***************************************************************************)
(* C17  When two admin create requests for the same username, not stored   *)
(* yet, run concurrently on a store that enforces unique usernames, with   *)
(* the lookup and the write of each interleaving freely, at most one       *)
(* record for the username is stored, exactly one request succeeds and     *)
(* the other fails with Conflict (409).                                    *)
(***************************************************************************)
C17_ConcurrentCreateOneWinsOtherConflict ==
    (/\ \A p \in Procs : pc[p] = "done"
     /\ "get_user_by_username" \in tr[1].db.attrs
     /\ CanMutate(tr[1].db, "create_user"))
    => /\ Cardinality(RowsOf(users, req[1].username)) <= 1
       /\ \E p, q \in Procs :
            /\ p # q
            /\ resp[p].status = OK
            /\ resp[q].status = Conflict

(***************************************************************************)
(* C18  The user returned by a successful update of a stored user is the   *)
(* stored record after the update: user_id, username, email, full_name     *)
(* and role with their current values, the fields the request did not      *)
(* supply included, on the dedicated and on the raw path.                  *)
(***************************************************************************)
C18_UpdateReturnsMergedView ==
    (/\ Served("update") /\ resp.status = OK
     /\ RowsOf(users, req.username) # {})
    => resp.user = RowsOf(users, req.username)

(***************************************************************************)
(* C19  No update request changes the username or the user_id of a stored  *)
(* record, and while a record stays stored under a username its user_id    *)
(* is the same after every step.                                           *)
(***************************************************************************)
\* the (username, user_id) pairs of the stored records
Keys(table) == {<<r.username, r.user_id>> : r \in table}

C19_UpdateKeepsUsernameAndId ==
    [][/\ Serves("update") => Keys(users') = Keys(users)
       /\ \A r \in users, q \in users' :
            q.username = r.username => q.user_id = r.user_id]_vars

\* the raw UPDATE changed email, full_name and role of the second record
C19_Witness ==
    /\ Served("update") /\ resp.status = OK
    /\ "commit" \in tr.calls
    /\ req.email # NULL /\ req.full_name # NULL /\ req.role # NULL
    /\ \E r \in users :
         /\ r.username = req.username /\ r.user_id = 2
         /\ r.email = req.email /\ r.full_name = req.full_name
         /\ r.role = req.role

====
